---- MODULE Spec2Model ----
(***************************************************************************)
(* Model of pipeline/utils/export_utils.py: the batch driver               *)
(* process_session_output, the per-file process_arrow_dataset, and the     *)
(* two passes arrow_to_jsonl and save_images_from_arrow over one source    *)
(* file.                                                                   *)
(*                                                                         *)
(* Text (str, paths, file contents) is a sequence of tokens: a token is    *)
(* one character, or a fixed literal fragment of the program text such as  *)
(* ".jsonl".  Python values are tagged records.  A dict is the sequence    *)
(* of its <<key, value>> pairs in insertion order.                         *)
(***************************************************************************)
EXTENDS Integers, Sequences, FiniteSets, TLC

\* Longest table (rows per source file) considered.
MaxRows == 2

(***************************************************************************)
(* Python values                                                           *)
(***************************************************************************)
IntV(k) == [tag |-> "int", n |-> k]
StrV(t) == [tag |-> "str", s |-> t]
NoneV == [tag |-> "none"]
BytesV(p) == [tag |-> "bytes", b |-> p]
ListV(xs) == [tag |-> "list", items |-> xs]
\* a plain dict
DictV(kv) == [tag |-> "dict", d |-> kv]
\* an object that is no dict but exposes get()
MappingV(kv) == [tag |-> "mapping", d |-> kv]

IsStr(v) == v.tag = "str"
IsDict(v) == v.tag = "dict"
HasGet(v) == v.tag \in {"dict", "mapping"}

\* dict operations on a sequence of <<key, value>> pairs
Keys(kv) == {kv[i][1] : i \in DOMAIN kv}
HasKey(kv, k) == k \in Keys(kv)
KeyPos(kv, k) == CHOOSE i \in DOMAIN kv : kv[i][1] = k
\* d.get(k, default)
Get(kv, k, default) == IF HasKey(kv, k) THEN kv[KeyPos(kv, k)][2] ELSE default
\* d[k] = v : in place when the key exists, else appended
SetItem(kv, k, v) ==
  IF HasKey(kv, k) THEN [kv EXCEPT ![KeyPos(kv, k)] = <<k, v>>]
  ELSE Append(kv, <<k, v>>)
\* del d[k]
DelItem(kv, k) ==
  LET p == KeyPos(kv, k)
  IN  [i \in 1..(Len(kv) - 1) |-> IF i < p THEN kv[i] ELSE kv[i + 1]]

\* len(x): defined on bytes and str, TypeError on None and numbers
HasLen(v) == v.tag \in {"bytes", "str"}
PyLen(v) == IF v.tag = "bytes" THEN Len(v.b) ELSE Len(v.s)
\* truth value of x in `if x:`
Truthy(v) ==
  CASE v.tag = "none" -> FALSE
    [] v.tag = "bytes" -> Len(v.b) > 0
    [] v.tag = "str" -> Len(v.s) > 0
    [] v.tag = "int" -> v.n # 0
    [] OTHER -> TRUE

(***************************************************************************)
(* json.loads on text over the alphabet "[", "]", ",", digits, blanks and  *)
(* letters: arrays of integers, nested.  Anything else is a decode error.  *)
(***************************************************************************)
Digits == <<"0", "1", "2", "3", "4", "5", "6", "7", "8", "9">>
DigitSet == {Digits[i] : i \in DOMAIN Digits}
DigitVal(c) == (CHOOSE i \in DOMAIN Digits : Digits[i] = c) - 1
JsonWs == {" ", "\n"}

RECURSIVE SkipWs(_, _)
SkipWs(t, i) == IF i <= Len(t) /\ t[i] \in JsonWs THEN SkipWs(t, i + 1) ELSE i

ParseFail == [ok |-> FALSE]
ParseOk(v, next) == [ok |-> TRUE, v |-> v, next |-> next]

\* the digits of an integer literal starting at i (no leading zero)
RECURSIVE ScanInt(_, _, _)
ScanInt(t, i, acc) ==
  IF i <= Len(t) /\ t[i] \in DigitSet
  THEN ScanInt(t, i + 1, acc * 10 + DigitVal(t[i]))
  ELSE ParseOk(IntV(acc), i)

RECURSIVE ParseValue(_, _)
RECURSIVE ParseElems(_, _, _)
ParseElems(t, i, acc) ==
  LET e == ParseValue(t, i)
  IN  IF ~e.ok THEN ParseFail
      ELSE LET k == SkipWs(t, e.next)
           IN  IF k > Len(t) THEN ParseFail
               ELSE IF t[k] = "," THEN ParseElems(t, SkipWs(t, k + 1), Append(acc, e.v))
               ELSE IF t[k] = "]" THEN ParseOk(ListV(Append(acc, e.v)), k + 1)
               ELSE ParseFail

ParseValue(t, i) ==
  IF i > Len(t) THEN ParseFail
  ELSE IF t[i] = "["
       THEN LET j == SkipWs(t, i + 1)
            IN  IF j <= Len(t) /\ t[j] = "]" THEN ParseOk(ListV(<<>>), j + 1)
                ELSE ParseElems(t, j, <<>>)
  ELSE IF t[i] \in DigitSet
       THEN IF t[i] = "0" /\ i < Len(t) /\ t[i + 1] \in DigitSet THEN ParseFail
            ELSE ScanInt(t, i, 0)
  ELSE ParseFail

\* json.loads(text): [ok |-> FALSE] stands for JSONDecodeError
JsonLoads(t) ==
  LET r == ParseValue(t, SkipWs(t, 1))
  IN  IF r.ok /\ SkipWs(t, r.next) = Len(t) + 1 THEN r ELSE ParseFail

(***************************************************************************)
(* json.dumps(value, ensure_ascii=False, indent=None)                      *)
(***************************************************************************)
RECURSIVE IntText(_)
IntText(k) == IF k < 10 THEN <<Digits[k + 1]>> ELSE Append(IntText(k \div 10), Digits[(k % 10) + 1])

\* one character of a str inside a JSON string literal
EscapeChar(c) ==
  CASE c = "\n" -> <<"\\", "n">>
    [] c = "\"" -> <<"\\", "\"">>
    [] c = "\\" -> <<"\\", "\\">>
    [] OTHER -> <<c>>

RECURSIVE EscapeText(_)
EscapeText(t) == IF t = <<>> THEN <<>> ELSE EscapeChar(Head(t)) \o EscapeText(Tail(t))

RECURSIVE Serializable(_)
Serializable(v) ==
  CASE v.tag \in {"int", "str", "none"} -> TRUE
    [] v.tag = "list" -> \A i \in DOMAIN v.items : Serializable(v.items[i])
    [] v.tag = "dict" -> \A i \in DOMAIN v.d : Serializable(v.d[i][2])
    [] OTHER -> FALSE

RECURSIVE JsonDumps(_)
RECURSIVE DumpItems(_)
RECURSIVE DumpPairs(_)
DumpItems(xs) ==
  IF xs = <<>> THEN <<>>
  ELSE JsonDumps(Head(xs)) \o (IF Len(xs) > 1 THEN <<",", " ">> ELSE <<>>) \o DumpItems(Tail(xs))

DumpPairs(kv) ==
  IF kv = <<>> THEN <<>>
  ELSE <<"\"", Head(kv)[1], "\"", ":", " ">> \o JsonDumps(Head(kv)[2])
       \o (IF Len(kv) > 1 THEN <<",", " ">> ELSE <<>>) \o DumpPairs(Tail(kv))

JsonDumps(v) ==
  CASE v.tag = "int" -> IntText(v.n)
    [] v.tag = "str" -> <<"\"">> \o EscapeText(v.s) \o <<"\"">>
    [] v.tag = "none" -> <<"null">>
    [] v.tag = "list" -> <<"[">> \o DumpItems(v.items) \o <<"]">>
    [] v.tag = "dict" -> <<"{">> \o DumpPairs(v.d) \o <<"}">>

(***************************************************************************)
(* arrow_to_jsonl: one row -> one line                                     *)
(***************************************************************************)
EmptyStr == StrV(<<>>)
EmptyBytes == BytesV(<<>>)
Raised == [ok |-> FALSE]

\* lines 41-53: the image field replaced by image_path and image_bytes_size.
\* [ok |-> FALSE] is the TypeError of len(None).
SummarizeImage(row_dict) ==
  IF HasKey(row_dict, "image") /\ Get(row_dict, "image", NoneV) # NoneV
  THEN LET image == Get(row_dict, "image", NoneV)
       IN  IF (IsDict(image) /\ HasKey(image.d, "bytes")) \/ HasGet(image)
           THEN LET payload == Get(image.d, "bytes", EmptyBytes)
                    withPath == SetItem(row_dict, "image_path", Get(image.d, "path", EmptyStr))
                IN  IF HasLen(payload)
                    THEN [ok |-> TRUE,
                          d |-> DelItem(SetItem(withPath, "image_bytes_size", IntV(PyLen(payload))),
                                        "image")]
                    ELSE Raised
           ELSE [ok |-> TRUE,
                 d |-> DelItem(SetItem(SetItem(row_dict, "image_path", EmptyStr),
                                       "image_bytes_size", IntV(0)), "image")]
  ELSE [ok |-> TRUE, d |-> row_dict]

\* line 57: a str that begins with "[" and ends with "]"
LooksLikeArray(v) == IsStr(v) /\ Len(v.s) > 0 /\ v.s[1] = "[" /\ v.s[Len(v.s)] = "]"

\* the row written without lines 56-64
NormalizeValueSkipped(v) == v
\* lines 57-64: array text parsed and serialised again, anything else as it is
NormalizeValue(v) ==
  IF LooksLikeArray(v)
  THEN LET parsed == JsonLoads(v.s)
       IN  IF parsed.ok THEN StrV(JsonDumps(parsed.v)) ELSE v
  ELSE v

\* lines 56-64 over every item of the dict
NormalizeStrings(row_dict) == [i \in DOMAIN row_dict |-> <<row_dict[i][1], NormalizeValue(row_dict[i][2])>>]

\* lines 38-64: the export record of a row, or the exception
ExportRecord(row) ==
  LET summarized == SummarizeImage(row)
  IN  IF summarized.ok THEN [ok |-> TRUE, d |-> NormalizeStrings(summarized.d)] ELSE Raised

\* line 67: json.dumps(row_dict, ...), TypeError on a value json cannot encode
ExportLine(row) ==
  LET rec == ExportRecord(row)
  IN  IF rec.ok /\ Serializable(DictV(rec.d))
      THEN [ok |-> TRUE, line |-> JsonDumps(DictV(rec.d))]
      ELSE Raised

\* the file opened with mode 'a': what it holds is kept
OpenForAppend(files, path) ==
  [q \in (DOMAIN files) \cup {path} |-> IF q \in DOMAIN files THEN files[q] ELSE <<>>]
\* line 35: open(jsonl_file_path, 'w') creates the file or empties it
OpenForWrite(files, path) ==
  [q \in (DOMAIN files) \cup {path} |-> IF q = path THEN <<>> ELSE files[q]]

\* the write without its line terminator
WriteLineNoNewline(content, line) == content \o line
\* line 67: f.write(line + '\n')
WriteLine(content, line) == content \o line \o <<"\n">>

(***************************************************************************)
(* save_images_from_arrow: one row -> at most one PNG file                 *)
(***************************************************************************)
\* lines 97-101
ImageBytes(row) ==
  LET image == Get(row, "image", NoneV)
  IN  IF (IsDict(image) /\ HasKey(image.d, "bytes")) \/ HasGet(image)
      THEN Get(image.d, "bytes", NoneV)
      ELSE NoneV

\* line 105, Image.open(io.BytesIO(image_bytes)): the payload must be bytes that
\* begin with an image signature
ImageOpens(payload) == payload.tag = "bytes" /\ Len(payload.b) > 0 /\ payload.b[1] = "89"
\* line 112, image.save(...): the pixel data is read here; a truncated stream fails
ImageSaves(payload) == payload.b[Len(payload.b)] = "82"

PadWidth == 4
RECURSIVE ZeroPad(_, _)
ZeroPad(t, w) == IF Len(t) < w THEN ZeroPad(<<"0">> \o t, w) ELSE t
\* the file name padded to three digits
ImageFileName03d(idx) == <<"image_">> \o ZeroPad(IntText(idx), PadWidth - 1) \o <<".png">>
\* line 108: f"image_{idx:04d}.png"
ImageFileName(idx) == <<"image_">> \o ZeroPad(IntText(idx), PadWidth) \o <<".png">>
\* os.path.join
PathJoin(dir, name) == dir \o <<"/">> \o name

(***************************************************************************)
(* Paths                                                                   *)
(***************************************************************************)
Suffixes == {".arrow", ".jsonl", ".png", ".txt"}
Last(p) == p[Len(p)]
\* line 184: arrow_file.with_suffix('')
WithoutSuffix(p) ==
  IF Len(p) > 1 /\ Last(p) \in Suffixes /\ p[Len(p) - 1] # "/" THEN SubSeq(p, 1, Len(p) - 1) ELSE p
\* line 138
JsonlPath(output_base_path) == output_base_path \o <<".jsonl">>
\* line 139
ImagesDir(output_base_path) == output_base_path \o <<"_images">>
IsUnder(p, dir) == Len(p) > Len(dir) + 1 /\ SubSeq(p, 1, Len(dir) + 1) = dir \o <<"/">>
\* the pattern "*": every path under the root
RglobAll(paths, root) == {p \in paths : IsUnder(p, root)}
\* line 172: session_path.rglob("*.arrow") over every path that exists
Rglob(paths, root) == {p \in paths : IsUnder(p, root) /\ Last(p) = ".arrow"}

(***************************************************************************)
(* Inputs: the rows, tables and directories considered                     *)
(***************************************************************************)
PngOk == BytesV(<<"89", "50", "82">>)
PngTruncated == BytesV(<<"89", "50">>)
NotAnImage == BytesV(<<"00", "00", "00", "00">>)
PathA == StrV(<<"a", ".png">>)
ArrayText == StrV(<<"[", "1", ",", "\n", "2", "]">>)
BracketText == StrV(<<"[", "a", "\n", "]">>)

ImageRow(image) == <<<<"id", IntV(1)>>, <<"image", image>>>>
TextRow(text) == <<<<"id", IntV(2)>>, <<"text", text>>>>

NoImageRows ==
  { <<<<"id", IntV(3)>>>>,
    TextRow(ArrayText),
    TextRow(BracketText),
    <<<<"id", IntV(4)>>, <<"blob", PngOk>>>> }

ImageRows ==
  { ImageRow(NoneV),
    ImageRow(DictV(<<<<"bytes", PngOk>>, <<"path", PathA>>>>)),
    ImageRow(DictV(<<<<"bytes", PngTruncated>>, <<"path", NoneV>>>>)),
    ImageRow(DictV(<<<<"bytes", NotAnImage>>, <<"path", PathA>>>>)),
    ImageRow(DictV(<<<<"bytes", EmptyBytes>>, <<"path", PathA>>>>)),
    ImageRow(DictV(<<<<"bytes", NoneV>>, <<"path", NoneV>>>>)),
    ImageRow(DictV(<<<<"path", PathA>>>>)),
    ImageRow(MappingV(<<<<"bytes", PngOk>>>>)),
    ImageRow(StrV(<<"a">>)) }

Rows == NoImageRows \cup ImageRows
Tables == UNION {[1..n -> Rows] : n \in 0..MaxRows}

\* what a source file holds: a table, or bytes that are no Arrow stream
Malformed == [ok |-> FALSE, rows |-> <<>>]
Content(rows) == [ok |-> TRUE, rows |-> rows]

Root == <<"session_output">>
FileA == Root \o <<"/", "a", ".arrow">>
FileB == Root \o <<"/", "sub", "/", "b", ".arrow">>
Notes == Root \o <<"/", "notes", ".txt">>
ContentsA == {Malformed} \cup {Content(t) : t \in Tables}
ContentsB == {Malformed, Content(<<ImageRow(DictV(<<<<"bytes", PngOk>>, <<"path", PathA>>>>))>>)}

NoFiles == [q \in {} |-> Malformed]
Put(f, k, v) == [q \in (DOMAIN f) \cup {k} |-> IF q = k THEN v ELSE f[q]]
Orderings(S) == {q \in [1..Cardinality(S) -> S] : \A i, j \in DOMAIN q : i # j => q[i] # q[j]}

\* the source files a directory may hold
DirsA == {NoFiles} \cup {Put(NoFiles, FileA, c) : c \in ContentsA}
DirsB == {NoFiles} \cup {Put(NoFiles, FileB, c) : c \in ContentsB}

(***************************************************************************)
(* State                                                                   *)
(***************************************************************************)
VARIABLES
  rootExists,    \* whether session_output_dir exists
  sources,       \* path -> content of the files that hold (or claim to hold) Arrow data
  others,        \* paths of other files of the directory
  jsonl,         \* path -> text of the JSONL files written
  dirs,          \* directories created by os.makedirs
  pngs,          \* path -> payload of the PNG files written
  pc,            \* where the program is
  run,           \* "first" or "second" call of process_session_output
  arrow_files,   \* the list rglob returned
  fi,            \* position of the for loop over arrow_files
  df,            \* the table of the pass being executed
  ri,            \* position of the row loop
  saved_images,  \* str(idx) -> image_path, as pairs
  calls,         \* arrow_file_path of every call of process_arrow_dataset of this run
  loads,         \* the tables read during the current call of process_arrow_dataset
  firstRun       \* the output files as the first run left them

vars == <<rootExists, sources, others, jsonl, dirs, pngs, pc, run, arrow_files, fi, df, ri,
          saved_images, calls, loads, firstRun>>

fsIn == <<rootExists, sources, others>>

AllPaths == (DOMAIN sources) \cup others \cup (DOMAIN jsonl) \cup dirs \cup (DOMAIN pngs)
arrow_file == arrow_files[fi]
output_base == WithoutSuffix(arrow_file)
jsonl_path == JsonlPath(output_base)
images_dir == ImagesDir(output_base)

\* the reader asked for its first record batch only (one row per batch)
ReadTableFirstBatch(srcs, path) ==
  IF path \in DOMAIN srcs /\ srcs[path].ok
  THEN [ok |-> TRUE,
        rows |-> IF Len(srcs[path].rows) > 1 THEN <<srcs[path].rows[1]>> ELSE srcs[path].rows]
  ELSE Raised
\* lines 22-27 and 81-86: pa.ipc.open_stream(path).read_all().to_pandas()
ReadTable(srcs, path) ==
  IF path \in DOMAIN srcs /\ srcs[path].ok THEN [ok |-> TRUE, rows |-> srcs[path].rows] ELSE Raised

Init ==
  /\ rootExists \in BOOLEAN
  /\ \/ /\ ~rootExists
        /\ sources = NoFiles
        /\ others = {}
     \/ /\ rootExists
        /\ others = {Notes}
        /\ \E a \in DirsA, b \in DirsB : sources = a @@ b
  /\ jsonl = NoFiles
  /\ dirs = {}
  /\ pngs = NoFiles
  /\ pc = "start"
  /\ run = "first"
  /\ arrow_files = <<>>
  /\ fi = 1
  /\ df = <<>>
  /\ ri = 1
  /\ saved_images = <<>>
  /\ calls = <<>>
  /\ loads = <<>>
  /\ firstRun = [jsonl |-> NoFiles, pngs |-> NoFiles, dirs |-> {}, found |-> {}]

(***************************************************************************)
(* process_session_output, lines 158-190                                   *)
(***************************************************************************)
\* the for loop without its try
OnFileErrorPropagate == "raised"
\* line 190: the except clause of the for loop; the loop goes on
OnFileError == "next_file"
\* the export's exception swallowed: the image pass runs all the same
OnJsonlErrorSwallowed == "images_load"
\* lines 143-149: process_arrow_dataset has no try; what arrow_to_jsonl raises
\* leaves it before save_images_from_arrow is called
OnJsonlError == "except"
\* the row loop without its try
OnRowErrorPropagate == "except"
\* lines 118-119: the except clause inside the row loop; the loop goes on
OnRowError == "images_row"

\* lines 165-178
Start ==
  /\ pc = "start"
  /\ calls' = <<>>
  /\ IF ~rootExists
     THEN /\ pc' = "done"
          /\ arrow_files' = <<>>
     ELSE \E found \in Orderings(Rglob(AllPaths, Root)) :
            /\ arrow_files' = found
            /\ pc' = IF found = <<>> THEN "done" ELSE "loop"
  /\ fi' = 1
  /\ UNCHANGED <<fsIn, jsonl, dirs, pngs, run, df, ri, saved_images, loads, firstRun>>

\* lines 180-187: the next file is handed to process_arrow_dataset
CallDataset ==
  /\ pc = "loop"
  /\ fi <= Len(arrow_files)
  /\ calls' = Append(calls, arrow_file)
  /\ loads' = <<>>
  /\ pc' = "jsonl_load"
  /\ UNCHANGED <<fsIn, jsonl, dirs, pngs, run, arrow_files, fi, df, ri, saved_images, firstRun>>

\* line 180: the for loop is exhausted: process_session_output returns
Return ==
  /\ pc = "loop"
  /\ fi > Len(arrow_files)
  /\ pc' = "done"
  /\ UNCHANGED <<fsIn, jsonl, dirs, pngs, run, arrow_files, fi, df, ri, saved_images, calls,
                 loads, firstRun>>

\* arrow_to_jsonl, lines 22-27
JsonlLoad ==
  /\ pc = "jsonl_load"
  /\ LET t == ReadTable(sources, arrow_file)
     IN  IF t.ok
         THEN /\ df' = t.rows
              /\ loads' = Append(loads, [by |-> "arrow_to_jsonl", rows |-> t.rows])
              /\ pc' = "jsonl_open"
         ELSE /\ pc' = OnJsonlError
              /\ UNCHANGED <<df, loads>>
  /\ UNCHANGED <<fsIn, jsonl, dirs, pngs, run, arrow_files, fi, ri, saved_images, calls, firstRun>>

\* arrow_to_jsonl, lines 30-35: the directory of the source exists already;
\* open(..., 'w') creates the file or empties it
JsonlOpen ==
  /\ pc = "jsonl_open"
  /\ jsonl' = OpenForWrite(jsonl, jsonl_path)
  /\ ri' = 1
  /\ pc' = "jsonl_row"
  /\ UNCHANGED <<fsIn, dirs, pngs, run, arrow_files, fi, df, saved_images, calls, loads, firstRun>>

\* arrow_to_jsonl, lines 36-67: one pass of the row loop
JsonlRow ==
  /\ pc = "jsonl_row"
  /\ ri <= Len(df)
  /\ LET out == ExportLine(df[ri])
     IN  IF out.ok
         THEN /\ jsonl' = [jsonl EXCEPT ![jsonl_path] = WriteLine(@, out.line)]
              /\ ri' = ri + 1
              /\ pc' = "jsonl_row"
         ELSE /\ pc' = OnJsonlError
              /\ UNCHANGED <<jsonl, ri>>
  /\ UNCHANGED <<fsIn, dirs, pngs, run, arrow_files, fi, df, saved_images, calls, loads, firstRun>>

\* arrow_to_jsonl returns; process_arrow_dataset, lines 144-149
JsonlDone ==
  /\ pc = "jsonl_row"
  /\ ri > Len(df)
  /\ pc' = "images_load"
  /\ UNCHANGED <<fsIn, jsonl, dirs, pngs, run, arrow_files, fi, df, ri, saved_images, calls,
                 loads, firstRun>>

\* save_images_from_arrow, lines 81-91
ImagesLoad ==
  /\ pc = "images_load"
  /\ LET t == ReadTable(sources, arrow_file)
     IN  IF t.ok
         THEN /\ df' = t.rows
              /\ loads' = Append(loads, [by |-> "save_images_from_arrow", rows |-> t.rows])
              /\ dirs' = dirs \cup {images_dir}
              /\ saved_images' = <<>>
              /\ ri' = 1
              /\ pc' = "images_row"
         ELSE /\ pc' = "except"
              /\ UNCHANGED <<df, loads, dirs, saved_images, ri>>
  /\ UNCHANGED <<fsIn, jsonl, pngs, run, arrow_files, fi, calls, firstRun>>

\* save_images_from_arrow, lines 93-119: one pass of the row loop; idx is the
\* position of the row in the table, from 0
ImagesRow ==
  /\ pc = "images_row"
  /\ ri <= Len(df)
  /\ LET row == df[ri]
         idx == ri - 1
         image_bytes == ImageBytes(row)
         image_path == PathJoin(images_dir, ImageFileName(idx))
     IN  IF HasKey(row, "image") /\ Get(row, "image", NoneV) # NoneV /\ Truthy(image_bytes)
         THEN IF ImageOpens(image_bytes) /\ ImageSaves(image_bytes)
              THEN /\ pngs' = Put(pngs, image_path, image_bytes.b)
                   /\ saved_images' = SetItem(saved_images, IntText(idx), image_path)
                   /\ ri' = ri + 1
                   /\ pc' = "images_row"
              ELSE /\ pc' = OnRowError
                   /\ ri' = IF OnRowError = "images_row" THEN ri + 1 ELSE ri
                   /\ UNCHANGED <<pngs, saved_images>>
         ELSE /\ ri' = ri + 1
              /\ pc' = "images_row"
              /\ UNCHANGED <<pngs, saved_images>>
  /\ UNCHANGED <<fsIn, jsonl, dirs, run, arrow_files, fi, df, calls, loads, firstRun>>

\* save_images_from_arrow returns (line 121); process_arrow_dataset, lines 150-155
ImagesDone ==
  /\ pc = "images_row"
  /\ ri > Len(df)
  /\ pc' = "returned"
  /\ UNCHANGED <<fsIn, jsonl, dirs, pngs, run, arrow_files, fi, df, ri, saved_images, calls,
                 loads, firstRun>>

\* line 188: the call returned; on to the next file
FileOk ==
  /\ pc = "returned"
  /\ fi' = fi + 1
  /\ pc' = "loop"
  /\ UNCHANGED <<fsIn, jsonl, dirs, pngs, run, arrow_files, df, ri, saved_images, calls, loads,
                 firstRun>>

\* lines 189-190: the call raised
FileError ==
  /\ pc = "except"
  /\ IF OnFileError = "next_file"
     THEN /\ fi' = fi + 1
          /\ pc' = "loop"
     ELSE /\ pc' = "raised"
          /\ UNCHANGED fi
  /\ UNCHANGED <<fsIn, jsonl, dirs, pngs, run, arrow_files, df, ri, saved_images, calls, loads,
                 firstRun>>

\* process_session_output is called a second time on the same directory
RunAgain ==
  /\ pc = "done"
  /\ run = "first"
  /\ firstRun' = [jsonl |-> jsonl, pngs |-> pngs, dirs |-> dirs,
                   found |-> {arrow_files[i] : i \in DOMAIN arrow_files}]
  /\ run' = "second"
  /\ pc' = "start"
  /\ UNCHANGED <<fsIn, jsonl, dirs, pngs, arrow_files, fi, df, ri, saved_images, calls, loads>>

Next ==
  \/ Start
  \/ CallDataset
  \/ Return
  \/ JsonlLoad
  \/ JsonlOpen
  \/ JsonlRow
  \/ JsonlDone
  \/ ImagesLoad
  \/ ImagesRow
  \/ ImagesDone
  \/ FileOk
  \/ FileError
  \/ RunAgain

Spec == Init /\ [][Next]_vars

(***************************************************************************)
(* What the claims speak of                                                *)
(***************************************************************************)
RECURSIVE SplitLines(_)
\* the lines of a text, split at its line terminators
SplitLines(text) ==
  IF text = <<>> THEN <<>>
  ELSE IF \E i \in DOMAIN text : text[i] = "\n"
       THEN LET k == CHOOSE i \in DOMAIN text :
                       text[i] = "\n" /\ \A j \in 1..(i - 1) : text[j] # "\n"
            IN  <<SubSeq(text, 1, k - 1)>> \o SplitLines(SubSeq(text, k + 1, Len(text)))
       ELSE <<text>>

EndsWith(t, suffix) ==
  Len(t) >= Len(suffix) /\ SubSeq(t, Len(t) - Len(suffix) + 1, Len(t)) = suffix

\* the table the current source file holds
InputRows == sources[arrow_file].rows
\* the lines of the JSONL file of the current source file
OutputLines == SplitLines(jsonl[jsonl_path])
\* the PNG files in the images directory of the current source file
ImageFiles == {p \in DOMAIN pngs : IsUnder(p, images_dir)}
\* the path of image_<idx, four digits>.png for the i-th row (idx = i - 1 < 10)
ExpectedImagePath(i) ==
  output_base \o <<"_images", "/", "image_", "0", "0", "0", Digits[i], ".png">>

HasImage(row) == HasKey(row, "image")
ImageOf(row) == Get(row, "image", NoneV)
\* the byte payload the image field carries, None when it carries none
PayloadOf(row) ==
  IF HasImage(row) /\ ImageOf(row).tag \in {"dict", "mapping"}
  THEN Get(ImageOf(row).d, "bytes", NoneV)
  ELSE NoneV
NonEmptyPayload(row) == PayloadOf(row).tag = "bytes" /\ Len(PayloadOf(row).b) > 0
\* the payload is an image that decodes and can be written
GoodImage(row) ==
  NonEmptyPayload(row) /\ ImageOpens(PayloadOf(row)) /\ ImageSaves(PayloadOf(row))
SizeField(n) == <<"\"", "image_bytes_size", "\"", ":", " ">> \o IntText(n) \o <<"}">>

\* process_arrow_dataset has returned for the current file
DatasetReturned == pc = "returned"
\* arrow_to_jsonl has returned for the current file
ExportReturned == pc = "images_load"

\* C1: when arrow_to_jsonl returns, the JSONL file holds exactly one line per
\* row of the table, and line i is the export record of row i.
C1_OneLinePerRow ==
  ExportReturned =>
    /\ Len(OutputLines) = Len(InputRows)
    /\ \A i \in DOMAIN InputRows :
         OutputLines[i] = JsonDumps(DictV(ExportRecord(InputRows[i]).d))

C1_Witness ==
  /\ ExportReturned
  /\ Len(InputRows) = 2
  /\ InputRows[1] = TextRow(BracketText)
  /\ InputRows[2] = ImageRow(DictV(<<<<"bytes", PngOk>>, <<"path", PathA>>>>))

\* C2 as stated: every row with a non-empty byte payload has, once the file is
\* processed, its image file image_<index>.png, and its record's image_bytes_size
\* is the length of the payload.
C2_EveryPayloadYieldsImage ==
  DatasetReturned =>
    \A i \in DOMAIN InputRows :
      NonEmptyPayload(InputRows[i]) =>
        /\ ExpectedImagePath(i) \in ImageFiles
        /\ EndsWith(OutputLines[i], SizeField(Len(PayloadOf(InputRows[i]).b)))

\* C2 amended: once process_arrow_dataset has returned, every row whose non-empty
\* payload decodes and saves has exactly one image file, image_<index>.png, a row
\* whose payload does not has none, and for every row with a non-empty payload
\* image_bytes_size is the length of the payload.
C2_DecodablePayloadYieldsImage ==
  DatasetReturned =>
    /\ \A i \in DOMAIN InputRows :
         /\ GoodImage(InputRows[i]) <=> ExpectedImagePath(i) \in ImageFiles
         /\ NonEmptyPayload(InputRows[i]) =>
              EndsWith(OutputLines[i], SizeField(Len(PayloadOf(InputRows[i]).b)))
    /\ Cardinality(ImageFiles) = Cardinality({i \in DOMAIN InputRows : GoodImage(InputRows[i])})

C2_Witness ==
  /\ DatasetReturned
  /\ Len(InputRows) = 2
  /\ PayloadOf(InputRows[1]) = NotAnImage
  /\ PayloadOf(InputRows[2]) = PngOk
  /\ ImageFiles = {ExpectedImagePath(2)}

\* C3 as stated: once the file is processed (the call returned or raised), every
\* row whose image payload is empty or absent has no image file, and its record
\* ends with image_path "" and image_bytes_size 0.
C3_EmptyPayloadZeroSize ==
  pc \in {"returned", "except"} =>
    \A i \in DOMAIN InputRows :
      (HasImage(InputRows[i]) /\ ~NonEmptyPayload(InputRows[i])) =>
        /\ ExpectedImagePath(i) \notin ImageFiles
        /\ jsonl_path \in DOMAIN jsonl
        /\ i <= Len(OutputLines)
        /\ EndsWith(OutputLines[i],
                    <<"\"", "image_path", "\"", ":", " ", "\"", "\"", ",", " ">> \o SizeField(0))

\* the value a field of a row without image has in its export record
ExpectedValue(v) ==
  IF v.tag = "str" /\ Len(v.s) > 0 /\ Head(v.s) = "[" /\ v.s[Len(v.s)] = "]" /\ JsonLoads(v.s).ok
  THEN StrV(JsonDumps(JsonLoads(v.s).v))
  ELSE v

\* C4 as stated: the record of a row without image field is the row itself, key
\* for key and value for value.
C4_NoImageRowCopied ==
  ExportReturned =>
    \A i \in DOMAIN InputRows :
      ~HasImage(InputRows[i]) => OutputLines[i] = JsonDumps(DictV(InputRows[i]))

\* C4 amended: the record of a row without image field has the keys of the row, in
\* the row's order, and the row's values, except that a string value that begins
\* with "[", ends with "]" and parses as JSON is replaced by its serialisation.
C4_NoImageRowCopiedUpToArrays ==
  ExportReturned =>
    \A i \in DOMAIN InputRows :
      ~HasImage(InputRows[i]) =>
        OutputLines[i] =
          JsonDumps(DictV([k \in DOMAIN InputRows[i] |->
                            <<InputRows[i][k][1], ExpectedValue(InputRows[i][k][2])>>]))

C4_Witness ==
  /\ ExportReturned
  /\ Len(InputRows) = 2
  /\ InputRows[1] = TextRow(ArrayText)
  /\ InputRows[2] = TextRow(BracketText)
  /\ OutputLines[1] # JsonDumps(DictV(InputRows[1]))

\* C5: a row whose image fails to decode or to save never ends the image pass:
\* no exception leaves save_images_from_arrow, and when it returns the mapping
\* holds str(index) -> path of the file written for exactly the rows whose image
\* was written.
C5_RowFailureIsolated ==
  /\ pc = "except" => Len(loads) < 2
  /\ DatasetReturned =>
       /\ Keys(saved_images) = {IntText(i - 1) : i \in {j \in DOMAIN InputRows : GoodImage(InputRows[j])}}
       /\ \A i \in DOMAIN InputRows :
            GoodImage(InputRows[i]) =>
              /\ Get(saved_images, IntText(i - 1), <<>>) = ExpectedImagePath(i)
              /\ ExpectedImagePath(i) \in DOMAIN pngs

C5_Witness ==
  /\ DatasetReturned
  /\ Len(InputRows) = 2
  /\ PayloadOf(InputRows[1]) = PngTruncated
  /\ PayloadOf(InputRows[2]) = PngOk
  /\ saved_images = <<<<<<"1">>, ExpectedImagePath(2)>>>>

\* C6: when process_session_output returns, every matching file has been handed
\* to process_arrow_dataset exactly once, whichever of them failed, and no
\* exception leaves the driver.
C6_EveryFileOnce ==
  /\ pc # "raised"
  /\ pc = "done" =>
       /\ Len(calls) = Cardinality(DOMAIN sources)
       /\ \A f \in DOMAIN sources : Cardinality({i \in DOMAIN calls : calls[i] = f}) = 1

C6_Witness ==
  /\ pc = "done"
  /\ calls = <<FileA, FileB>>
  /\ sources[FileA] = Malformed
  /\ sources[FileB] # Malformed
  /\ DOMAIN pngs # {}

\* C7: with no root directory, or no matching file under it, the driver only
\* returns: process_arrow_dataset is never called and nothing is created.
C7_NothingToDo ==
  (~rootExists \/ DOMAIN sources = {}) =>
    /\ pc \in {"start", "done"}
    /\ calls = <<>>
    /\ DOMAIN jsonl = {}
    /\ dirs = {}
    /\ DOMAIN pngs = {}

C7_Witness ==
  /\ pc = "done"
  /\ run = "second"
  /\ rootExists
  /\ others = {Notes}
  /\ DOMAIN sources = {}

\* C8: after the second run over an unchanged directory the JSONL files and the
\* image files are those the first run left, and the second run enumerated the
\* source files the first run enumerated.
C8_SecondRunSame ==
  (pc = "done" /\ run = "second") =>
    /\ jsonl = firstRun.jsonl
    /\ pngs = firstRun.pngs
    /\ dirs = firstRun.dirs
    /\ {arrow_files[i] : i \in DOMAIN arrow_files} = firstRun.found

C8_Witness ==
  /\ pc = "done"
  /\ run = "second"
  /\ DOMAIN sources = {FileA, FileB}
  /\ sources[FileA].ok
  /\ Len(sources[FileA].rows) = 2
  /\ Len(jsonl[JsonlPath(WithoutSuffix(FileA))]) > 0
  /\ Cardinality(DOMAIN pngs) = 3

\* C9 as stated: one call of process_arrow_dataset reads the source file once.
C9_LoadedOnce == DatasetReturned => Len(loads) = 1

\* C9 amended: one call of process_arrow_dataset that returns has read the source
\* file twice, first in arrow_to_jsonl and then in save_images_from_arrow, each
\* time the whole table of the file; the JSONL file is <base>.jsonl and the
\* images directory <base>_images.
C9_LoadedOncePerPass ==
  DatasetReturned =>
    /\ Len(loads) = 2
    /\ loads[1] = [by |-> "arrow_to_jsonl", rows |-> InputRows]
    /\ loads[2] = [by |-> "save_images_from_arrow", rows |-> InputRows]
    /\ arrow_file = FileA =>
         /\ Root \o <<"/", "a", ".jsonl">> \in DOMAIN jsonl
         /\ Root \o <<"/", "a", "_images">> \in dirs
    /\ arrow_file = FileB =>
         /\ Root \o <<"/", "sub", "/", "b", ".jsonl">> \in DOMAIN jsonl
         /\ Root \o <<"/", "sub", "/", "b", "_images">> \in dirs

C9_Witness ==
  /\ DatasetReturned
  /\ arrow_file = FileA
  /\ Len(InputRows) = 2
  /\ Len(OutputLines) = 2
  /\ Cardinality(ImageFiles) = 2

\* the text of the records of the first k rows
RECURSIVE RecordsText(_, _)
RecordsText(rows, k) ==
  IF k = 0 THEN <<>> ELSE RecordsText(rows, k - 1) \o ExportLine(rows[k]).line \o <<"\n">>

\* C10: the image pass of a file starts only when the export of that file has
\* written all its records; when the export raises, the images directory of the
\* file does not exist and holds no file, no JSONL file is left when the load
\* failed, and otherwise the JSONL file holds the records of the rows before the
\* failing one.
C10_ImagesAfterExport ==
  /\ pc \in {"images_load", "images_row", "returned"} =>
       /\ sources[arrow_file].ok
       /\ jsonl_path \in DOMAIN jsonl
       /\ Len(OutputLines) = Len(InputRows)
  /\ pc = "except" =>
       /\ images_dir \notin dirs
       /\ ImageFiles = {}
       /\ IF sources[arrow_file].ok
          THEN \E k \in 0..(Len(InputRows) - 1) :
                 /\ \A j \in 1..k : ExportLine(InputRows[j]).ok
                 /\ ~ExportLine(InputRows[k + 1]).ok
                 /\ jsonl[jsonl_path] = RecordsText(InputRows, k)
          ELSE jsonl_path \notin DOMAIN jsonl

C10_Witness ==
  /\ pc = "except"
  /\ sources[arrow_file].ok
  /\ Len(InputRows) = 2
  /\ Len(OutputLines) = 1
  /\ images_dir \notin dirs
====
